---- MODULE Spec2Model ----
(***************************************************************************)
(* Model of the TLS session wrapper of ylong_http_client                   *)
(* (src/util/c_openssl/ssl/ssl_base.rs): creation of a native session,     *)
(* configuration of the hostname / IP verification target, the handshake   *)
(* step of Ssl::connect and the ownership of the native handle.            *)
(***************************************************************************)
EXTENDS Integers, Sequences, FiniteSets, TLC

(***************************************************************************)
(* Bounds of the model                                                     *)
(***************************************************************************)
\* largest return code the engine step is given in the model
MaxRet == 2
\* smallest (most negative) return code the engine step is given
MinRetAbs == 1
\* cap on the number of engine handshake steps of one session
MaxSteps == 3

RetCodes == (0 - MinRetAbs)..MaxRet

(***************************************************************************)
(* Host strings are sequences of one-character strings.                    *)
(***************************************************************************)
DecDigits == <<"0", "1", "2", "3", "4", "5", "6", "7", "8", "9">>
HexDigits == DecDigits \o <<"a", "b", "c", "d", "e", "f">>

IndexOf(c, digits) ==
    IF \E i \in 1..Len(digits) : digits[i] = c
    THEN (CHOOSE i \in 1..Len(digits) : digits[i] = c) - 1
    ELSE 0 - 1

IsDec(c) == IndexOf(c, DecDigits) >= 0
IsHex(c) == IndexOf(c, HexDigits) >= 0

RECURSIVE NumVal(_, _, _)
\* value of a digit string in the given radix (digits already validated)
NumVal(s, digits, radix) ==
    IF s = <<>> THEN 0
    ELSE NumVal(SubSeq(s, 1, Len(s) - 1), digits, radix) * radix
         + IndexOf(s[Len(s)], digits)

RECURSIVE SplitOn(_, _)
\* the pieces of s between the occurrences of sep (like str::split)
SplitOn(s, sep) ==
    IF \E i \in 1..Len(s) : s[i] = sep
    THEN LET i == CHOOSE k \in 1..Len(s) :
                     s[k] = sep /\ \A j \in 1..(k - 1) : s[j] /= sep
         IN  <<SubSeq(s, 1, i - 1)>> \o SplitOn(SubSeq(s, i + 1, Len(s)), sep)
    ELSE <<s>>

\* one decimal octet: 1 to 3 digits, no zero prefix, at most 255
OctetOk(p) ==
    /\ Len(p) \in 1..3
    /\ \A i \in 1..Len(p) : IsDec(p[i])
    /\ (Len(p) > 1 => p[1] /= "0")
    /\ NumVal(p, DecDigits, 10) <= 255

Ipv4Ok(h) ==
    LET parts == SplitOn(h, ".")
    IN  Len(parts) = 4 /\ \A i \in 1..4 : OctetOk(parts[i])

Ipv4Octets(h) ==
    LET parts == SplitOn(h, ".")
    IN  [i \in 1..4 |-> NumVal(parts[i], DecDigits, 10)]

\* one group of an IPv6 literal: 1 to 4 hexadecimal digits
GroupOk(p) == Len(p) \in 1..4 /\ \A i \in 1..Len(p) : IsHex(p[i])

\* a colon-separated run of groups, the last of which may be a dotted quad
GroupsOk(gs) ==
    \A i \in 1..Len(gs) :
        GroupOk(gs[i]) \/ (i = Len(gs) /\ Ipv4Ok(gs[i]))

\* number of 16-bit segments a run of groups stands for
GroupsWidth(gs) ==
    IF Len(gs) > 0 /\ ~GroupOk(gs[Len(gs)]) THEN Len(gs) + 1 ELSE Len(gs)

RECURSIVE GroupsSegs(_)
GroupsSegs(gs) ==
    IF gs = <<>> THEN <<>>
    ELSE IF GroupOk(gs[1])
         THEN <<NumVal(gs[1], HexDigits, 16)>> \o GroupsSegs(Tail(gs))
         ELSE LET o == Ipv4Octets(gs[1])
              IN  <<o[1] * 256 + o[2], o[3] * 256 + o[4]>>

\* position of the first "::" of h, 0 when there is none
DoubleColon(h) ==
    IF \E i \in 1..(Len(h) - 1) : h[i] = ":" /\ h[i + 1] = ":"
    THEN CHOOSE i \in 1..(Len(h) - 1) :
            /\ h[i] = ":" /\ h[i + 1] = ":"
            /\ \A j \in 1..(i - 1) : ~(h[j] = ":" /\ h[j + 1] = ":")
    ELSE 0

RunOf(s) == IF s = <<>> THEN <<>> ELSE SplitOn(s, ":")

Ipv6Ok(h) ==
    LET d == DoubleColon(h)
    IN  IF d = 0
        THEN LET gs == RunOf(h)
             IN  GroupsOk(gs) /\ GroupsWidth(gs) = 8
        ELSE LET head == RunOf(SubSeq(h, 1, d - 1))
                 tail == RunOf(SubSeq(h, d + 2, Len(h)))
             IN  /\ \A i \in 1..Len(head) : GroupOk(head[i])
                 /\ GroupsOk(tail)
                 /\ Len(head) + GroupsWidth(tail) <= 7

Ipv6Segs(h) ==
    LET d == DoubleColon(h)
    IN  IF d = 0 THEN GroupsSegs(RunOf(h))
        ELSE LET head == RunOf(SubSeq(h, 1, d - 1))
                 tail == RunOf(SubSeq(h, d + 2, Len(h)))
                 fill == 8 - Len(head) - GroupsWidth(tail)
             IN  GroupsSegs(head) \o [i \in 1..fill |-> 0] \o GroupsSegs(tail)

\* variant of parse that accepts dotted quads only
parse_v4_only(host) ==
    IF Ipv4Ok(host) THEN [ok |-> TRUE, kind |-> "V4", addr |-> Ipv4Octets(host)]
    ELSE [ok |-> FALSE, kind |-> "Err", addr |-> <<>>]

\* host.parse::<IpAddr>(): Ok(V4 | V6) or Err
parse(host) ==
    IF Ipv4Ok(host) THEN [ok |-> TRUE, kind |-> "V4", addr |-> Ipv4Octets(host)]
    ELSE IF Ipv6Ok(host) THEN [ok |-> TRUE, kind |-> "V6", addr |-> Ipv6Segs(host)]
    ELSE [ok |-> FALSE, kind |-> "Err", addr |-> <<>>]

\* the expected_host values the caller passes in the model
Hosts ==
    { <<"1", ".", "2", ".", "3", ".", "4">>,
      <<"2", "5", "5", ".", "0", ".", "0", ".", "1">>,
      <<"2", "5", "6", ".", "0", ".", "0", ".", "1">>,
      <<"0", "1", ".", "2", ".", "3", ".", "4">>,
      <<"1", ".", "2", ".", "3">>,
      <<":", ":", "1">>,
      <<"f", "e", "8", "0", ":", ":", "1", ":", "2">>,
      <<":", ":", "f", "f", "f", "f", ":", "1", ".", "2", ".", "3", ".", "4">>,
      <<"1", ":", "2", ":", "3", ":", "4", ":", "5", ":", "6", ":", "7", ":", "8">>,
      <<"1", ":", "2", ":", "3">>,
      <<"a", ".", "b", ".", "e", "x", ".", "c", "o", "m">>,
      <<"*", ".", "e", "x", ".", "c", "o", "m">>,
      <<"f", "e", "e", "d">>,
      <<>> }


(***************************************************************************)
(* Values of the engine boundary                                           *)
(***************************************************************************)
\* SslErrorCode values the engine reports after a non-positive return code
ErrorCodes ==
    {"NONE", "SSL", "WANT_READ", "WANT_WRITE", "WANT_X509_LOOKUP",
     "SYSCALL", "ZERO_RETURN"}

\* the flag setup_verify_hostname passes to set_hostflags
X509_CHECK_FLAG_NO_PARTIAL_WILDCARDS == "NO_PARTIAL_WILDCARDS"

\* verification parameters of a fresh session (SSL_get0_param)
FreshParam ==
    [hostflags |-> {}, ip_set |-> FALSE, ip |-> <<>>,
     host_set |-> FALSE, host |-> <<>>]

NoSetup == [host |-> <<>>, setter |-> "none", ret |-> "none"]

\* cap on the number of setup_verify_hostname calls on one session
MaxSetups == 2

(***************************************************************************)
(* State                                                                   *)
(***************************************************************************)
VARIABLES
    created,       \* number of native sessions SSL_new has returned
    owners,        \* the values that hold the native SSL pointer
    sockOwners,    \* the values that hold the transport socket S
    param,         \* X509 verification parameters of the session
    lastSetup,     \* what the latest setup_verify_hostname call did
    setups,        \* number of setup_verify_hostname calls
    setupOk,       \* some setup_verify_hostname call has returned Ok
    outcome,       \* what the latest connect / resume returned
    error,         \* the error code carried by the MidHandshakeSslStream
    lastRet,       \* return code of the latest SSL_connect
    lastErr,       \* engine error signal at the latest SSL_connect
    engineSteps,   \* number of SSL_connect invocations
    connectCalls,  \* number of Ssl::connect calls
    okCount,       \* number of Ok(stream) outcomes returned
    allWant,       \* every SSL_connect so far reported want-read / want-write
    freeCount      \* number of SSL_free invocations

\* HttpClientError values (src/error.rs)
VARIABLES
    clientError,   \* the HttpClientError value at hand
    built,         \* the constructor call that made it, with its arguments
    kindRead,      \* what the latest error_kind() returned
    shown          \* what the latest Display / Debug formatting wrote

errVars == <<clientError, built, kindRead, shown>>

\* Option::None and Some(cause) of the cause field, the cause by its text
None == [some |-> FALSE, text |-> ""]
Some(text) == [some |-> TRUE, text |-> text]

NoError == [kind |-> "none", cause |-> None]
NotBuilt == [ctor |-> "none", kind |-> "none", cause |-> None]
NotShown == [by |-> "none", out |-> <<>>]

ErrIdle ==
    /\ clientError = NoError
    /\ built = NotBuilt
    /\ kindRead = "none"
    /\ shown = NotShown

\* the established stream: SslRef::read / write / verify_result
VARIABLES
    open,              \* the stream is established and usable
    engineVerify,      \* the engine's current verification result (c_long)
    verifyAtHandshake, \* its value when the handshake completed
    verifyChanged,     \* the engine has changed it since
    verifyRead,        \* what verify_result() returned since the latest I/O
    io,                \* the latest stream read / write and its result
    cancelled          \* cancellation has been invoked

streamVars ==
    <<open, engineVerify, verifyAtHandshake, verifyChanged, verifyRead, io,
      cancelled>>

NotRead == 0 - 1
NoIo ==
    [op |-> "none", buf |-> 0, called |-> FALSE, len |-> 0, ret |-> 0,
     code |-> "NONE", result |-> "none", n |-> 0]

StreamIdle ==
    /\ open = FALSE
    /\ engineVerify = 0
    /\ verifyAtHandshake = 0
    /\ verifyChanged = FALSE
    /\ verifyRead = NotRead
    /\ io = NoIo
    /\ cancelled = FALSE

\* the client core of one request: pool, tunnel, redirects and retries
VARIABLES
    pc,        \* the step of the dispatch loop the request is at
    request,   \* the request in flight and the client's configuration
    conn,      \* the connection checked out to the request
    pool,      \* the idle connections of the request's origin
    evicted,   \* the connections dropped after an error
    hops,      \* the redirects followed so far
    retries,   \* the stale-connection retries made for the current hop
    nextId,    \* the identity of the next transport to be established
    tunnel,    \* the latest tunnel negotiation over a fresh transport
    response   \* the status of the response returned to the caller

clientVars ==
    <<pc, request, conn, pool, evicted, hops, retries, nextId, tunnel,
      response>>

NoConn == [id |-> 0, reused |-> FALSE]
NoRequest == [method |-> "none", limit |-> 0, chain |-> 0, proxy |-> FALSE]
NoTunnel == [transport |-> 0, status |-> 0, text |-> "", returned |-> 0]

ClientIdle ==
    /\ pc = "idle"
    /\ request = NoRequest
    /\ conn = NoConn
    /\ pool = {}
    /\ evicted = {}
    /\ hops = 0
    /\ retries = 0
    /\ nextId = 1
    /\ tunnel = NoTunnel
    /\ response = 0

handshakeVars ==
    <<created, owners, sockOwners, param, lastSetup, setups, setupOk,
      outcome, error, lastRet, lastErr, engineSteps, connectCalls,
      okCount, allWant, freeCount>>

\* the variables the operations of ssl_base.rs's handshake leave alone
offHandshakeVars == <<errVars, streamVars, clientVars>>

\* the variables the operations of error.rs leave alone
offErrVars == <<handshakeVars, streamVars, clientVars>>

\* the variables the operations of the established stream leave alone
offStreamVars == <<handshakeVars, clientVars>>

\* the variables the client core's dispatch loop leaves alone
offClientVars == <<handshakeVars, streamVars>>

vars == <<handshakeVars, errVars, streamVars, clientVars>>

verifyVars == <<param, lastSetup, setups, setupOk>>
stepVars ==
    <<outcome, error, lastRet, lastErr, engineSteps, connectCalls, okCount,
      allWant>>

Init ==
    /\ created = 0
    /\ owners = {}
    /\ sockOwners = {"caller"}
    /\ param = FreshParam
    /\ lastSetup = NoSetup
    /\ setups = 0
    /\ setupOk = FALSE
    /\ outcome = "none"
    /\ error = "none"
    /\ lastRet = 0
    /\ lastErr = "NONE"
    /\ engineSteps = 0
    /\ connectCalls = 0
    /\ okCount = 0
    /\ allWant = TRUE
    /\ freeCount = 0
    /\ ErrIdle
    /\ StreamIdle
    /\ ClientIdle

(***************************************************************************)
(* Ssl::new: check_ptr(SSL_new(ctx))? then Ssl::from_ptr                   *)
(***************************************************************************)
Ssl_new(ptr_ok) ==
    /\ created = 0
    /\ IF ptr_ok
       THEN /\ created' = 1
            /\ owners' = {"Ssl"}
       ELSE UNCHANGED <<created, owners>>
    /\ UNCHANGED <<sockOwners, freeCount>>
    /\ UNCHANGED verifyVars
    /\ UNCHANGED stepVars
    /\ UNCHANGED offHandshakeVars

(***************************************************************************)
(* X509VerifyParamRef setters                                              *)
(***************************************************************************)
set_hostflags(p, flags) == [p EXCEPT !.hostflags = flags]

set_ip(p, ip, engine_ok) ==
    IF engine_ok THEN [p EXCEPT !.ip_set = TRUE, !.ip = ip.addr] ELSE p

set_host(p, host, engine_ok) ==
    IF engine_ok THEN [p EXCEPT !.host_set = TRUE, !.host = host] ELSE p

\* variant of setup_verify_hostname whose Err arm returns Ok(()) without
\* calling set_host
setup_verify_hostname_skip_dns(host, engine_ok) ==
    /\ "Ssl" \in owners
    /\ setups < MaxSetups
    /\ LET flagged == set_hostflags(param, {X509_CHECK_FLAG_NO_PARTIAL_WILDCARDS})
           ip == parse(host)
       IN  /\ param' = IF ip.ok THEN set_ip(flagged, ip, engine_ok) ELSE flagged
           /\ lastSetup' = [host |-> host,
                            setter |-> IF ip.ok THEN "set_ip" ELSE "set_host",
                            ret |-> IF engine_ok \/ ~ip.ok THEN "Ok" ELSE "Err"]
    /\ setups' = setups + 1
    /\ setupOk' = (setupOk \/ engine_ok \/ ~parse(host).ok)
    /\ UNCHANGED <<created, owners, sockOwners, freeCount>>
    /\ UNCHANGED stepVars
    /\ UNCHANGED offHandshakeVars

(***************************************************************************)
(* SslRef::setup_verify_hostname(ssl, host)                                *)
(***************************************************************************)
setup_verify_hostname(host, engine_ok) ==
    /\ "Ssl" \in owners
    /\ setups < MaxSetups
    /\ LET flagged == set_hostflags(param, {X509_CHECK_FLAG_NO_PARTIAL_WILDCARDS})
           ip == parse(host)
       IN  /\ param' = IF ip.ok THEN set_ip(flagged, ip, engine_ok)
                               ELSE set_host(flagged, host, engine_ok)
           /\ lastSetup' = [host |-> host,
                            setter |-> IF ip.ok THEN "set_ip" ELSE "set_host",
                            ret |-> IF engine_ok THEN "Ok" ELSE "Err"]
    /\ setups' = setups + 1
    /\ setupOk' = (setupOk \/ engine_ok)
    /\ UNCHANGED <<created, owners, sockOwners, freeCount>>
    /\ UNCHANGED stepVars
    /\ UNCHANGED offHandshakeVars

(***************************************************************************)
(* Ssl::connect(self, stream)                                              *)
(***************************************************************************)
\* the engine step reported that the socket is not ready
WantSignal(ret, e) == ret <= 0 /\ e \in {"WANT_READ", "WANT_WRITE"}

\* variant of connect_enabled for a connect that borrows the session
\* (&mut SslRef) instead of consuming self
connect_enabled_borrowed == owners /= {} /\ sockOwners /= {}

\* connect takes self and stream by value: the caller must hold both
connect_enabled == "Ssl" \in owners /\ "caller" \in sockOwners

\* stream.get_error(ret): the engine's error signal for the failed step
get_error(ret, e) == [code |-> e]

\* variant of connect_outcome testing ret >= 0
connect_outcome_nonneg(ret, e) ==
    IF ret >= 0
    THEN "Ok"
    ELSE IF get_error(ret, e).code \in {"WANT_READ", "WANT_WRITE"}
         THEN "WouldBlock"
         ELSE "Failure"

\* variant of connect_outcome without the suspend arm
connect_outcome_no_suspend(ret, e) ==
    IF ret > 0 THEN "Ok" ELSE "Failure"

\* variant of connect_outcome whose suspend arm matches WANT_READ only
connect_outcome_read_only(ret, e) ==
    IF ret > 0
    THEN "Ok"
    ELSE IF get_error(ret, e).code = "WANT_READ" THEN "WouldBlock" ELSE "Failure"

\* the classification of the return code of SSL_connect
connect_outcome(ret, e) ==
    IF ret > 0
    THEN "Ok"
    ELSE LET err == get_error(ret, e)
         IN  IF err.code \in {"WANT_READ", "WANT_WRITE"}
             THEN "WouldBlock"
             ELSE "Failure"

\* variant of connect_owners in which the caller keeps a copy of the handle
connect_owners_alias(out) ==
    IF out = "Ok" THEN {"Ssl", "SslStream"} ELSE {"Ssl", out}

\* variant of connect_owners whose catch-all arm builds WouldBlock too
connect_owners_one_variant(out) ==
    IF out = "Ok" THEN {"SslStream"} ELSE {"WouldBlock"}

\* the value the session and the socket are moved into by the outcome:
\* Ok(stream), WouldBlock(MidHandshakeSslStream), Failure(MidHandshakeSslStream)
connect_owners(out) ==
    IF out = "Ok" THEN {"SslStream"} ELSE {out}

\* variant of connect that repeats the engine step after a terminal failure
connect_retry(new_base_ok, ret, e) ==
    /\ connect_enabled
    /\ connectCalls' = connectCalls + 1
    /\ IF ~new_base_ok
       THEN /\ outcome' = "SetupFailure"
            /\ error' = "none"
            /\ owners' = {}
            /\ sockOwners' = {}
            /\ freeCount' = freeCount + 1
            /\ UNCHANGED <<lastRet, lastErr, engineSteps, okCount, allWant>>
       ELSE LET out == connect_outcome(ret, e)
            IN  /\ engineSteps' = engineSteps + (IF out = "Failure" THEN 2 ELSE 1)
                /\ lastRet' = ret
                /\ lastErr' = e
                /\ outcome' = out
                /\ error' = IF out = "Ok" THEN "none" ELSE get_error(ret, e).code
                /\ okCount' = IF out = "Ok" THEN okCount + 1 ELSE okCount
                /\ allWant' = (allWant /\ WantSignal(ret, e))
                /\ owners' = connect_owners(out)
                /\ sockOwners' = connect_owners(out)
                /\ UNCHANGED freeCount
    /\ UNCHANGED created
    /\ UNCHANGED verifyVars
    /\ UNCHANGED offHandshakeVars

connect(new_base_ok, ret, e) ==
    /\ connect_enabled
    /\ connectCalls' = connectCalls + 1
    /\ IF ~new_base_ok
       THEN \* SslStream::new_base(self, stream)? returns early: the moved
            \* session and socket are dropped, no engine step is made
            /\ outcome' = "SetupFailure"
            /\ error' = "none"
            /\ owners' = {}
            /\ sockOwners' = {}
            /\ freeCount' = freeCount + 1
            /\ UNCHANGED <<lastRet, lastErr, engineSteps, okCount, allWant>>
       ELSE LET out == connect_outcome(ret, e)
            IN  /\ engineSteps' = engineSteps + 1
                /\ lastRet' = ret
                /\ lastErr' = e
                /\ outcome' = out
                /\ error' = IF out = "Ok" THEN "none" ELSE get_error(ret, e).code
                /\ okCount' = IF out = "Ok" THEN okCount + 1 ELSE okCount
                /\ allWant' = (allWant /\ WantSignal(ret, e))
                /\ owners' = connect_owners(out)
                /\ sockOwners' = connect_owners(out)
                /\ UNCHANGED freeCount
    /\ UNCHANGED created
    /\ UNCHANGED verifyVars
    /\ UNCHANGED offHandshakeVars

(***************************************************************************)
(* resume(suspended): re-invokes the engine step of a suspended handshake  *)
(***************************************************************************)
resume(ret, e) ==
    /\ "WouldBlock" \in owners
    /\ engineSteps < MaxSteps
    /\ LET out == connect_outcome(ret, e)
       IN  /\ engineSteps' = engineSteps + 1
           /\ lastRet' = ret
           /\ lastErr' = e
           /\ outcome' = out
           /\ error' = IF out = "Ok" THEN "none" ELSE get_error(ret, e).code
           /\ okCount' = IF out = "Ok" THEN okCount + 1 ELSE okCount
           /\ allWant' = (allWant /\ WantSignal(ret, e))
           /\ owners' = connect_owners(out)
           /\ sockOwners' = connect_owners(out)
    /\ UNCHANGED <<created, freeCount, connectCalls>>
    /\ UNCHANGED verifyVars
    /\ UNCHANGED offHandshakeVars

(***************************************************************************)
(* Drop of a value that holds the session: foreign_type! fn drop = SSL_free *)
(***************************************************************************)
\* variant of drop that forgets the handle without SSL_free
drop_leak(v) ==
    /\ v \in owners
    /\ owners' = owners \ {v}
    /\ sockOwners' = sockOwners \ {v}
    /\ UNCHANGED <<created, freeCount>>
    /\ UNCHANGED verifyVars
    /\ UNCHANGED stepVars
    /\ UNCHANGED offHandshakeVars

drop(v) ==
    /\ v \in owners
    /\ owners' = owners \ {v}
    /\ sockOwners' = sockOwners \ {v}
    /\ freeCount' = freeCount + 1
    /\ UNCHANGED created
    /\ UNCHANGED verifyVars
    /\ UNCHANGED stepVars
    /\ UNCHANGED offHandshakeVars

Holders == {"Ssl", "SslStream", "WouldBlock", "Failure"}

Next ==
    \/ \E ptr_ok \in BOOLEAN : Ssl_new(ptr_ok)
    \/ \E host \in Hosts, engine_ok \in BOOLEAN : setup_verify_hostname(host, engine_ok)
    \/ \E new_base_ok \in BOOLEAN, ret \in RetCodes, e \in ErrorCodes :
          connect(new_base_ok, ret, e)
    \/ \E ret \in RetCodes, e \in ErrorCodes : resume(ret, e)
    \/ \E v \in Holders : drop(v)

Spec == Init /\ [][Next]_vars

\* the handshake state of section 4.1 the latest outcome stands for
HandshakeState ==
    CASE outcome = "Ok" -> "Established"
      [] outcome = "WouldBlock" -> "InProgress"
      [] outcome = "Failure" -> "Failed"
      [] OTHER -> "Unstarted"

TypeOK ==
    /\ created \in 0..1
    /\ owners \subseteq Holders
    /\ sockOwners \subseteq Holders \cup {"caller"}
    /\ outcome \in {"none", "Ok", "WouldBlock", "Failure", "SetupFailure"}
    /\ error \in ErrorCodes \cup {"none"}
    /\ lastRet \in RetCodes
    /\ lastErr \in ErrorCodes
    /\ engineSteps \in 0..MaxSteps
    /\ allWant \in BOOLEAN
    /\ freeCount \in 0..1

(***************************************************************************)
(* Properties                                                              *)
(***************************************************************************)
WantCodes == {"WANT_READ", "WANT_WRITE"}

\* C1: the outcome of a handshake step is decided by the return code r and
\* the error signal e of that step: Ok when r > 0, WouldBlock carrying e when
\* r <= 0 and e is want-read or want-write, Failure for every other pair;
\* every pair has exactly one of the three outcomes.
C1_StepClassified ==
    engineSteps > 0 =>
        /\ outcome \in {"Ok", "WouldBlock", "Failure"}
        /\ (outcome = "Ok") = (lastRet > 0)
        /\ (outcome = "WouldBlock") = (lastRet <= 0 /\ lastErr \in WantCodes)
        /\ (outcome = "Failure") = (lastRet <= 0 /\ lastErr \notin WantCodes)
        /\ (outcome = "WouldBlock" => error = lastErr)

C1_Witness ==
    /\ connectCalls = 1 /\ engineSteps = 1
    /\ lastRet = 0 /\ lastErr = "WANT_WRITE"
    /\ outcome = "WouldBlock" /\ error = "WANT_WRITE"

\* the hosts of the model that are IP literals, written out by hand
IpLiteralHosts ==
    { <<"1", ".", "2", ".", "3", ".", "4">>,
      <<"2", "5", "5", ".", "0", ".", "0", ".", "1">>,
      <<":", ":", "1">>,
      <<"f", "e", "8", "0", ":", ":", "1", ":", "2">>,
      <<":", ":", "f", "f", "f", "f", ":", "1", ".", "2", ".", "3", ".", "4">>,
      <<"1", ":", "2", ":", "3", ":", "4", ":", "5", ":", "6", ":", "7", ":", "8">> }

\* the address each of them denotes: 4 octets or 8 sixteen-bit segments
IpLiteralAddr(h) ==
    CASE h = <<"1", ".", "2", ".", "3", ".", "4">> -> <<1, 2, 3, 4>>
      [] h = <<"2", "5", "5", ".", "0", ".", "0", ".", "1">> -> <<255, 0, 0, 1>>
      [] h = <<":", ":", "1">> -> <<0, 0, 0, 0, 0, 0, 0, 1>>
      [] h = <<"f", "e", "8", "0", ":", ":", "1", ":", "2">>
            -> <<65152, 0, 0, 0, 0, 0, 1, 2>>
      [] h = <<":", ":", "f", "f", "f", "f", ":", "1", ".", "2", ".", "3", ".", "4">>
            -> <<0, 0, 0, 0, 0, 65535, 258, 772>>
      [] OTHER -> <<1, 2, 3, 4, 5, 6, 7, 8>>

\* C2: a call of setup_verify_hostname with an IP literal configures the IP
\* target and leaves the DNS name alone; with any other host it configures
\* the DNS name, with the no-partial-wildcards flag set, and leaves the IP
\* target alone; a call touches exactly one of the two targets.
C2_VerifyTarget ==
    [][setups' = setups + 1 =>
          LET h == lastSetup'.host
              isIp == h \in IpLiteralHosts
              ipSame == param'.ip_set = param.ip_set /\ param'.ip = param.ip
              hostSame == param'.host_set = param.host_set /\ param'.host = param.host
          IN  /\ lastSetup'.setter = (IF isIp THEN "set_ip" ELSE "set_host")
              /\ (isIp => hostSame)
              /\ (~isIp => ipSame)
              /\ (~isIp => X509_CHECK_FLAG_NO_PARTIAL_WILDCARDS \in param'.hostflags)
              /\ (lastSetup'.ret = "Ok" /\ isIp => param'.ip_set /\ param'.ip = IpLiteralAddr(h))
              /\ (lastSetup'.ret = "Ok" /\ ~isIp => param'.host_set /\ param'.host = h)
      ]_vars

C2_Witness ==
    /\ lastSetup.host = <<"f", "e", "8", "0", ":", ":", "1", ":", "2">>
    /\ lastSetup.ret = "Ok"
    /\ param.ip_set /\ param.ip = <<65152, 0, 0, 0, 0, 0, 1, 2>>
    /\ param.host_set /\ param.host = <<"*", ".", "e", "x", ".", "c", "o", "m">>

TargetSet == param.ip_set \/ param.host_set

\* C3 as stated: no engine handshake step runs on a session whose
\* verification target is unset.
C3_TargetSetBeforeStep == engineSteps > 0 => TargetSet

\* C3 amended: connect neither sets nor changes the verification target; the
\* target is set at the engine steps of a session exactly when a
\* setup_verify_hostname call on that session has succeeded before connect.
C3_TargetSetByCaller ==
    /\ [](engineSteps > 0 => (TargetSet <=> setupOk))
    /\ [][connectCalls' = connectCalls + 1 \/ engineSteps' /= engineSteps
             => param' = param]_vars

C3_Witness ==
    /\ engineSteps > 0 /\ setupOk /\ param.host_set /\ ~param.ip_set
    /\ param.host = <<"a", ".", "b", ".", "e", "x", ".", "c", "o", "m">>

ConnectStep == connectCalls' = connectCalls + 1
EngineStep == engineSteps' > engineSteps

\* C4: while every engine step reports want-read or want-write, begin and
\* any number of resumes never give Established; once a step succeeds the
\* outcome is Established, exactly once, and no further step is possible.
C4_NeverReadyNeverEstablished ==
    /\ [](allWant => outcome /= "Ok" /\ okCount = 0)
    /\ [](okCount <= 1)
    /\ [](engineSteps > 0 /\ lastRet > 0 => outcome = "Ok" /\ okCount = 1)
    /\ [][outcome = "Ok" => ~EngineStep /\ ~ConnectStep /\ outcome' = "Ok"]_vars

C4_Witness ==
    /\ allWant /\ connectCalls = 1 /\ engineSteps >= 3
    /\ outcome = "WouldBlock" /\ owners = {"WouldBlock"}

\* C5 as stated: the blocking connect never returns WouldBlock.
C5_ConnectNeverWouldBlock ==
    [][ConnectStep => outcome' \in {"Ok", "Failure", "SetupFailure"}]_vars

\* C5 amended: connect does not wait or retry on a would-block signal; when
\* its engine step reports want-read or want-write it returns WouldBlock, the
\* suspended handshake carrying the signal, and Established or Failed only
\* for the other return codes.
C5_ConnectSurfacesWouldBlock ==
    [][ConnectStep /\ EngineStep =>
          /\ engineSteps' = engineSteps + 1
          /\ (WantSignal(lastRet', lastErr') =>
                 outcome' = "WouldBlock" /\ error' = lastErr'
                 /\ owners' = {"WouldBlock"})
          /\ (~WantSignal(lastRet', lastErr') => outcome' \in {"Ok", "Failure"})
      ]_vars

C5_Witness ==
    /\ connectCalls = 1 /\ engineSteps = 1 /\ outcome = "WouldBlock"
    /\ lastRet < 0 /\ lastErr = "WANT_READ" /\ error = "WANT_READ"
    /\ owners = {"WouldBlock"}

\* C6: Established and Failed are terminal: after Failed (or Established) no
\* operation changes the handshake state or steps the engine, and a resume
\* is accepted only on the value of a WouldBlock outcome.
C6_TerminalStates ==
    /\ [][(HandshakeState = "Established" \/ HandshakeState = "Failed")
            => (outcome' = outcome /\ ~EngineStep /\ ~ConnectStep)]_vars
    /\ [][(EngineStep /\ ~ConnectStep)
            => (outcome = "WouldBlock" /\ owners = {"WouldBlock"})]_vars

C6_Witness ==
    /\ outcome = "Failure" /\ engineSteps >= 2 /\ owners = {} /\ freeCount = 1

\* C7: the live session and its socket have exactly one owner, the same
\* value for both once connect has run; after a WouldBlock outcome it is the
\* suspended handshake, and only the single owner steps the engine.
C7_SingleOwner ==
    /\ [](Cardinality(owners) <= 1 /\ Cardinality(sockOwners) <= 1)
    /\ [](created = 1 /\ freeCount = 0 => Cardinality(owners) = 1)
    /\ [](connectCalls > 0 => sockOwners = owners)
    /\ [](outcome = "WouldBlock" /\ freeCount = 0 =>
             owners = {"WouldBlock"} /\ sockOwners = {"WouldBlock"})
    /\ [][EngineStep => Cardinality(owners) = 1 /\ Cardinality(owners') = 1]_vars

C7_Witness ==
    /\ outcome = "WouldBlock" /\ engineSteps = 2 /\ lastErr = "WANT_WRITE"
    /\ owners = {"WouldBlock"} /\ sockOwners = {"WouldBlock"} /\ freeCount = 0

\* C8 as stated: every call of connect makes exactly one engine step.
C8_ExactlyOneStep ==
    [][ConnectStep => engineSteps' = engineSteps + 1]_vars

\* C8 amended: a call of connect makes at most one engine step and never
\* repeats it: exactly one when SslStream::new_base succeeds, whose classified
\* outcome it returns, and none when new_base fails.
C8_AtMostOneStep ==
    [][ConnectStep =>
          IF outcome' = "SetupFailure"
          THEN engineSteps' = engineSteps
          ELSE /\ engineSteps' = engineSteps + 1
               /\ outcome' = (IF lastRet' > 0 THEN "Ok"
                              ELSE IF lastErr' \in WantCodes THEN "WouldBlock"
                              ELSE "Failure")
      ]_vars

C8_Witness ==
    /\ connectCalls = 1 /\ engineSteps = 1 /\ outcome = "Failure"
    /\ lastErr = "SYSCALL" /\ owners = {"Failure"}

\* C9: a session created by Ssl::new is released by SSL_free exactly once:
\* never twice, never while a value still owns it, and always once its owner
\* has been dropped.
C9_FreedExactlyOnce ==
    /\ freeCount <= 1
    /\ (created = 0 => freeCount = 0 /\ owners = {})
    /\ (freeCount = 1 => owners = {})
    /\ (created = 1 /\ owners = {} => freeCount = 1)

C9_Witness ==
    /\ outcome = "Ok" /\ owners = {} /\ freeCount = 1 /\ created = 1

\* C10 as stated: the session is owned by the stream after success and is
\* no longer alive in the state a Failed outcome reaches.
C10_FailedReleasesSession ==
    /\ (outcome = "Ok" /\ freeCount = 0 => owners = {"SslStream"})
    /\ (outcome = "Failure" => owners = {} /\ freeCount = 1)

\* C10 amended: the session is consumed into the stream on success; on a
\* terminal failure of the step it is moved into the Failure value, still
\* alive in the state that outcome reaches, and is released when that value
\* is dropped.
C10_FailureOwnsSession ==
    /\ [](outcome = "Ok" /\ freeCount = 0 => owners = {"SslStream"})
    /\ [](outcome = "Failure" =>
             \/ owners = {"Failure"} /\ freeCount = 0
             \/ owners = {} /\ freeCount = 1)
    /\ [][outcome' = "Failure" /\ EngineStep =>
             owners' = {"Failure"} /\ freeCount' = 0]_vars

C10_Witness ==
    /\ outcome = "Failure" /\ owners = {"Failure"} /\ freeCount = 0
    /\ lastRet = 0 /\ lastErr = "SSL"

(***************************************************************************)
(* HttpClientError and ErrorKind (src/error.rs)                            *)
(***************************************************************************)
\* enum ErrorKind
ErrorKinds ==
    {"BodyDecode", "BodyTransfer", "Build", "Connect", "ConnectionUpgrade",
     "Other", "Redirect", "Request", "Timeout", "UserAborted"}

\* the causes and messages the constructors are given in the model
Causes == {None, Some("connection reset"), Some("")}
Messages == {"", "bad status"}

\* CauseMessage::new(message), as the boxed cause: it displays its message
CauseMessage_new(message) == Some(message)

\* variant of user_aborted with the kind of other()
user_aborted_as_other == [kind |-> "Other", cause |-> None]

\* HttpClientError::user_aborted()
user_aborted == [kind |-> "UserAborted", cause |-> None]

\* variant of other that drops the cause
other_no_cause(cause) == [kind |-> "Other", cause |-> None]

\* HttpClientError::other(cause): cause.map(|e| e.into())
other(cause) ==
    [kind |-> "Other", cause |-> IF cause.some THEN Some(cause.text) ELSE None]

\* variant of new_with_cause that keeps the kind only when there is a cause
new_with_cause_by_cause(kind, cause) ==
    [kind |-> IF cause.some THEN kind ELSE "Other",
     cause |-> IF cause.some THEN Some(cause.text) ELSE None]

\* HttpClientError::new_with_cause(kind, cause)
new_with_cause(kind, cause) ==
    [kind |-> kind, cause |-> IF cause.some THEN Some(cause.text) ELSE None]

\* variant of new_with_message that files every message under Other
new_with_message_as_other(kind, message) ==
    [kind |-> "Other", cause |-> CauseMessage_new(message)]

\* variant of new_with_message that drops the message
new_with_message_no_cause(kind, message) == [kind |-> kind, cause |-> None]

\* HttpClientError::new_with_message(kind, message)
new_with_message(kind, message) ==
    [kind |-> kind, cause |-> CauseMessage_new(message)]

\* HttpClientError::error_kind(&self)
error_kind(e) == e.kind

\* variant of as_str in which two arms share a string
as_str_shared(kind) ==
    CASE kind = "BodyDecode" -> "Body Decode Error"
      [] kind = "BodyTransfer" -> "Body Decode Error"
      [] kind = "Build" -> "Build Error"
      [] kind = "Connect" -> "Connect Error"
      [] kind = "ConnectionUpgrade" -> "Connection Upgrade Error"
      [] kind = "Other" -> "Other Error"
      [] kind = "Redirect" -> "Redirect Error"
      [] kind = "Request" -> "Request Error"
      [] kind = "Timeout" -> "Timeout Error"
      [] kind = "UserAborted" -> "User Aborted Error"

\* ErrorKind::as_str(&self)
as_str(kind) ==
    CASE kind = "BodyDecode" -> "Body Decode Error"
      [] kind = "BodyTransfer" -> "Body Transfer Error"
      [] kind = "Build" -> "Build Error"
      [] kind = "Connect" -> "Connect Error"
      [] kind = "ConnectionUpgrade" -> "Connection Upgrade Error"
      [] kind = "Other" -> "Other Error"
      [] kind = "Redirect" -> "Redirect Error"
      [] kind = "Request" -> "Request Error"
      [] kind = "Timeout" -> "Timeout Error"
      [] kind = "UserAborted" -> "User Aborted Error"

\* impl Display for HttpClientError: the text written to the formatter
Display(e) ==
    IF e.cause.some
    THEN as_str(e.kind) \o ": " \o e.cause.text
    ELSE as_str(e.kind)

\* impl Debug for HttpClientError: the struct name and the fields written
Debug(e) ==
    IF e.cause.some
    THEN <<"HttpClientError", "ErrorKind", e.kind, "Cause", e.cause.text>>
    ELSE <<"HttpClientError", "ErrorKind", e.kind>>

\* the record of a constructor call and its arguments
Built(ctor, kind, cause) == [ctor |-> ctor, kind |-> kind, cause |-> cause]

\* a constructor's value replaces the one at hand
call_user_aborted ==
    /\ clientError' = user_aborted
    /\ built' = Built("user_aborted", "UserAborted", None)
    /\ kindRead' = "none"
    /\ shown' = NotShown
    /\ UNCHANGED offErrVars

call_other(cause) ==
    /\ clientError' = other(cause)
    /\ built' = Built("other", "Other", cause)
    /\ kindRead' = "none"
    /\ shown' = NotShown
    /\ UNCHANGED offErrVars

call_new_with_cause(kind, cause) ==
    /\ clientError' = new_with_cause(kind, cause)
    /\ built' = Built("new_with_cause", kind, cause)
    /\ kindRead' = "none"
    /\ shown' = NotShown
    /\ UNCHANGED offErrVars

call_new_with_message(kind, message) ==
    /\ clientError' = new_with_message(kind, message)
    /\ built' = Built("new_with_message", kind, Some(message))
    /\ kindRead' = "none"
    /\ shown' = NotShown
    /\ UNCHANGED offErrVars

call_error_kind ==
    /\ clientError /= NoError
    /\ kindRead' = error_kind(clientError)
    /\ UNCHANGED <<clientError, built, shown>>
    /\ UNCHANGED offErrVars

fmt_Display ==
    /\ clientError /= NoError
    /\ shown' = [by |-> "Display", out |-> <<Display(clientError)>>]
    /\ UNCHANGED <<clientError, built, kindRead>>
    /\ UNCHANGED offErrVars

fmt_Debug ==
    /\ clientError /= NoError
    /\ shown' = [by |-> "Debug", out |-> Debug(clientError)]
    /\ UNCHANGED <<clientError, built, kindRead>>
    /\ UNCHANGED offErrVars

NextErr ==
    \/ call_user_aborted
    \/ \E cause \in Causes : call_other(cause)
    \/ \E kind \in ErrorKinds, cause \in Causes : call_new_with_cause(kind, cause)
    \/ \E kind \in ErrorKinds, message \in Messages :
          call_new_with_message(kind, message)
    \/ call_error_kind
    \/ fmt_Display
    \/ fmt_Debug

SpecErr == Init /\ [][NextErr]_vars

\* C12: the kind of an HttpClientError is the one given to its constructor
\* (UserAborted for user_aborted, Other for other), whatever the cause is;
\* error_kind() returns it, and error_kind, Display and Debug leave the
\* value as it was built.
C12_KindFixedAtConstruction ==
    /\ [](built.ctor /= "none" => clientError.kind = built.kind)
    /\ [](kindRead /= "none" => kindRead = built.kind)
    /\ [][built' = built => clientError' = clientError]_vars

C12_Witness ==
    /\ built.ctor = "new_with_cause" /\ built.kind = "Timeout"
    /\ ~built.cause.some
    /\ kindRead = "Timeout" /\ shown.by = "Debug"

\* C13: an error carries one kind of the closed set of ten and an optional
\* cause; user_aborted() gives UserAborted without a cause, other(c) gives
\* Other with a cause exactly when c is one, the cause keeping its text.
C13_ClosedKindOptionalCause ==
    built.ctor /= "none" =>
        /\ Cardinality(ErrorKinds) = 10
        /\ clientError.kind \in ErrorKinds
        /\ (built.ctor = "user_aborted" =>
               clientError.kind = "UserAborted" /\ ~clientError.cause.some)
        /\ (built.ctor = "other" =>
               /\ clientError.kind = "Other"
               /\ clientError.cause.some = built.cause.some
               /\ clientError.cause.text = built.cause.text)

C13_Witness ==
    /\ built.ctor = "other" /\ built.cause = Some("connection reset")
    /\ clientError.kind = "Other" /\ clientError.cause.some
    /\ kindRead = "Other"

\* the text of each kind, written out by hand
KindText ==
    [k \in ErrorKinds |->
        CASE k = "BodyDecode" -> "Body Decode Error"
          [] k = "BodyTransfer" -> "Body Transfer Error"
          [] k = "Build" -> "Build Error"
          [] k = "Connect" -> "Connect Error"
          [] k = "ConnectionUpgrade" -> "Connection Upgrade Error"
          [] k = "Other" -> "Other Error"
          [] k = "Redirect" -> "Redirect Error"
          [] k = "Request" -> "Request Error"
          [] k = "Timeout" -> "Timeout Error"
          [] k = "UserAborted" -> "User Aborted Error"]

\* C19: as_str gives every kind its own fixed string, no two kinds the same
\* one; Display writes that string alone for an error without a cause and
\* that string, ": " and the cause's text for an error with one.
C19_AsStrInjectiveDisplay ==
    /\ \A k \in ErrorKinds : as_str(k) = KindText[k]
    /\ \A k1, k2 \in ErrorKinds : as_str(k1) = as_str(k2) => k1 = k2
    /\ (shown.by = "Display" /\ ~clientError.cause.some =>
           shown.out = <<KindText[clientError.kind]>>)
    /\ (shown.by = "Display" /\ clientError.cause.some =>
           shown.out = <<KindText[clientError.kind] \o ": "
                           \o clientError.cause.text>>)

C19_Witness ==
    /\ shown.by = "Display"
    /\ shown.out = <<"Connect Error: bad status">>
    /\ built.ctor = "new_with_message"

(***************************************************************************)
(* The established stream: SslRef::read, write, get_error, verify_result   *)
(***************************************************************************)
\* width of c_int in the model, in bits; usize has twice that width
CIntBits == 8
CIntMax == 2^(CIntBits - 1) - 1
UsizeMax == 2^(2 * CIntBits) - 1

\* `v as c_int`: the low CIntBits bits of v, read as a signed number
AsCInt(v) ==
    LET m == v % 2^CIntBits
    IN  IF m > CIntMax THEN m - 2^CIntBits ELSE m

\* `v as usize`
AsUsize(v) == v % (UsizeMax + 1)

Min(a, b) == IF a <= b THEN a ELSE b

\* the buffer lengths the caller passes in the model
BufLens ==
    {0, 1, 2, CIntMax, CIntMax + 1, 2^CIntBits, 2^CIntBits + 2, UsizeMax}

\* the verification results the engine holds in the model
VerifyCodes == {0, 62}

\* variant of c_int_len that casts the buffer length without the min
c_int_len_cast_only(n) == AsCInt(n)

\* cmp::min(c_int::MAX as usize, buf.len()) as c_int
c_int_len(n) == AsCInt(Min(AsUsize(CIntMax), n))

\* what SSL_read / SSL_write may return for a length argument: an error or
\* a count of at most len bytes
EngineReturns(len) ==
    IF len < 0 THEN {0 - 1}
    ELSE {r \in {0 - 1, 0, 1, 2, len} : r <= len}

\* SslRef::read(&mut self, buf): the length handed to SSL_read and the
\* return code handed back
SslRef_read(buf_len, engine_ret) ==
    [len |-> c_int_len(buf_len), ret |-> engine_ret]

\* SslRef::write(&mut self, buf)
SslRef_write(buf_len, engine_ret) ==
    [len |-> c_int_len(buf_len), ret |-> engine_ret]

\* SSL_get_error(ssl, ret): no error for a positive return code, the
\* engine's signal otherwise
SSL_get_error(ret, e) == IF ret > 0 THEN "NONE" ELSE e

\* variant of SslRef_get_error that does not pass err on to the engine
SslRef_get_error_no_arg(ret, e) == [code |-> SSL_get_error(1, e)]

\* SslRef::get_error(&self, err)
SslRef_get_error(ret, e) == [code |-> SSL_get_error(ret, e)]

\* variant of verify_result that returns the value of handshake completion
verify_result_snapshot(engine_value) == AsCInt(verifyAtHandshake)

\* SslRef::verify_result(&self): SSL_get_verify_result(..) as c_int
verify_result(engine_value) == AsCInt(engine_value)

\* the stream's translation of the return code of a read or write
translate(ret, e) ==
    IF ret >= 0 THEN [result |-> "Bytes", n |-> ret]
    ELSE IF SslRef_get_error(ret, e).code \in {"WANT_READ", "WANT_WRITE"}
         THEN [result |-> "WouldBlock", n |-> 0]
         ELSE [result |-> "Error", n |-> 0]

\* a stream right after Ssl::new and a connect that returned Ok(stream)
InitStream ==
    /\ created = 1
    /\ owners = {"SslStream"}
    /\ sockOwners = {"SslStream"}
    /\ param = FreshParam
    /\ lastSetup = NoSetup
    /\ setups = 0
    /\ setupOk = FALSE
    /\ outcome = "Ok"
    /\ error = "none"
    /\ lastRet = 1
    /\ lastErr = "NONE"
    /\ engineSteps = 1
    /\ connectCalls = 1
    /\ okCount = 1
    /\ allWant = FALSE
    /\ freeCount = 0
    /\ ErrIdle
    /\ open = TRUE
    /\ engineVerify \in VerifyCodes
    /\ verifyAtHandshake = engineVerify
    /\ verifyChanged = FALSE
    /\ verifyRead = NotRead
    /\ io = NoIo
    /\ cancelled = FALSE
    /\ ClientIdle

call_verify_result ==
    /\ open
    /\ verifyRead' = verify_result(engineVerify)
    /\ UNCHANGED <<open, engineVerify, verifyAtHandshake, verifyChanged, io,
                   cancelled>>
    /\ UNCHANGED <<offStreamVars, errVars>>

\* cancellation is invoked between two operations
cancel ==
    /\ open
    /\ ~cancelled
    /\ cancelled' = TRUE
    /\ UNCHANGED <<open, engineVerify, verifyAtHandshake, verifyChanged,
                   verifyRead, io>>
    /\ UNCHANGED <<offStreamVars, errVars>>

\* the record of a read / write the stream made through the engine
Io(op, buf_len, call, e, out) ==
    [op |-> op, buf |-> buf_len, called |-> TRUE, len |-> call.len,
     ret |-> call.ret, code |-> IF call.ret < 0 THEN e ELSE "NONE",
     result |-> out.result, n |-> out.n]

\* the record of a read / write that ended at the cancellation check
Aborted(op, buf_len) ==
    [op |-> op, buf |-> buf_len, called |-> FALSE, len |-> 0, ret |-> 0,
     code |-> "NONE", result |-> "UserAborted", n |-> 0]

\* read(buffer) of the stream; the engine may renegotiate while it runs
stream_read(buf_len, engine_ret, e, v) ==
    /\ open
    /\ IF cancelled
       THEN /\ io' = Aborted("read", buf_len)
            /\ clientError' = user_aborted
            /\ built' = Built("user_aborted", "UserAborted", None)
            /\ kindRead' = "none"
            /\ shown' = NotShown
            /\ open' = FALSE
            /\ UNCHANGED <<engineVerify, verifyChanged>>
       ELSE LET call == SslRef_read(buf_len, engine_ret)
                out == translate(call.ret, e)
            IN  /\ engine_ret \in EngineReturns(call.len)
                /\ engineVerify' = v
                /\ verifyChanged' = (verifyChanged \/ v /= engineVerify)
                /\ io' = Io("read", buf_len, call, e, out)
                /\ open' = (out.result /= "Error")
                /\ UNCHANGED errVars
    /\ verifyRead' = NotRead
    /\ UNCHANGED <<verifyAtHandshake, cancelled>>
    /\ UNCHANGED offStreamVars

\* write(buffer) of the stream
stream_write(buf_len, engine_ret, e, v) ==
    /\ open
    /\ IF cancelled
       THEN /\ io' = Aborted("write", buf_len)
            /\ clientError' = user_aborted
            /\ built' = Built("user_aborted", "UserAborted", None)
            /\ kindRead' = "none"
            /\ shown' = NotShown
            /\ open' = FALSE
            /\ UNCHANGED <<engineVerify, verifyChanged>>
       ELSE LET call == SslRef_write(buf_len, engine_ret)
                out == translate(call.ret, e)
            IN  /\ engine_ret \in EngineReturns(call.len)
                /\ engineVerify' = v
                /\ verifyChanged' = (verifyChanged \/ v /= engineVerify)
                /\ io' = Io("write", buf_len, call, e, out)
                /\ open' = (out.result /= "Error")
                /\ UNCHANGED errVars
    /\ verifyRead' = NotRead
    /\ UNCHANGED <<verifyAtHandshake, cancelled>>
    /\ UNCHANGED offStreamVars

\* the error signals the engine pairs with a return code
CodesFor(ret) == IF ret < 0 THEN ErrorCodes ELSE {"NONE"}

NextStream ==
    \/ call_verify_result
    \/ cancel
    \/ \E buf_len \in BufLens, v \in VerifyCodes :
          \E r \in EngineReturns(c_int_len(buf_len)) : \E e \in CodesFor(r) :
              stream_read(buf_len, r, e, v)
    \/ \E buf_len \in BufLens, v \in VerifyCodes :
          \E r \in EngineReturns(c_int_len(buf_len)) : \E e \in CodesFor(r) :
              stream_write(buf_len, r, e, v)

SpecStream == InitStream /\ [][NextStream]_vars

\* C11 as stated: every verify_result() call returns the value the engine
\* held when the handshake completed.
C11_SnapshotReturned ==
    verifyRead /= NotRead => verifyRead = verifyAtHandshake

\* C11 amended: verify_result() keeps no snapshot; each call fetches the
\* engine's current verification result, which is the value of handshake
\* completion as long as the engine has not changed it since.
C11_FetchedFromEngine ==
    verifyRead /= NotRead =>
        /\ verifyRead = engineVerify
        /\ (~verifyChanged => verifyRead = verifyAtHandshake)

C11_Witness ==
    /\ verifyRead /= NotRead /\ verifyChanged
    /\ verifyRead = engineVerify /\ verifyRead /= verifyAtHandshake
    /\ io.op = "read"

\* C14: a stream read or write reports a non-negative return code as that
\* byte count, a negative one paired with want-read / want-write as
\* would-block, the stream staying usable for the retry, and any other
\* negative one as a fatal error; a byte count is never negative.
C14_ReturnCodeTranslated ==
    io.called =>
        /\ io.result \in {"Bytes", "WouldBlock", "Error"}
        /\ (io.ret >= 0 => io.result = "Bytes" /\ io.n = io.ret)
        /\ (io.ret < 0 /\ io.code \in WantCodes =>
               io.result = "WouldBlock" /\ open)
        /\ (io.ret < 0 /\ io.code \notin WantCodes =>
               io.result = "Error" /\ ~open)
        /\ (io.result = "Bytes" => io.n >= 0)

C14_Witness ==
    /\ io.called /\ io.op = "write" /\ io.ret < 0
    /\ io.code = "WANT_WRITE" /\ io.result = "WouldBlock" /\ open

\* C15: once cancellation has been invoked, the next read or write returns
\* an error of kind UserAborted and makes no engine call.
C15_CancelledOperationAborts ==
    /\ [][(cancelled /\ io' /= io) =>
             /\ io'.result = "UserAborted"
             /\ ~io'.called
             /\ error_kind(clientError') = "UserAborted"
             /\ engineVerify' = engineVerify]_vars
    /\ [](io.result = "UserAborted" => cancelled /\ ~open)

C15_Witness ==
    /\ cancelled /\ io.op = "write" /\ io.result = "UserAborted"
    /\ ~io.called /\ clientError.kind = "UserAborted"

\* C20: read and write hand the engine the length min(n, c_int::MAX) of a
\* buffer of n bytes, never a negative or wrapped one, so a byte count the
\* engine returns is at most n.
C20_LengthClamped ==
    io.called =>
        /\ io.len = (IF io.buf <= CIntMax THEN io.buf ELSE CIntMax)
        /\ io.len >= 0
        /\ (io.ret >= 0 => io.ret <= io.buf)

C20_Witness ==
    /\ io.called /\ io.op = "read"
    /\ io.buf = UsizeMax /\ io.len = CIntMax /\ io.ret = CIntMax

\* ------------------------------------------------------------------
\* Client core and proxy tunnel negotiator of one request
\* ------------------------------------------------------------------

MaxLimit == 2
MaxChain == 3

Methods == {"GET", "POST"}

\* the status lines a proxy answers a tunnel request with, by the leading
\* numeric token and the status text
StatusLines ==
    { [code |-> <<"1", "0", "0">>, text |-> "100 Continue"],
      [code |-> <<"1", "9", "9">>, text |-> "199 Unassigned"],
      [code |-> <<"2", "0", "0">>, text |-> "200 Connection Established"],
      [code |-> <<"2", "0", "4">>, text |-> "204 No Content"],
      [code |-> <<"2", "9", "9">>, text |-> "299 Unassigned"],
      [code |-> <<"3", "0", "0">>, text |-> "300 Multiple Choices"],
      [code |-> <<"4", "0", "7">>, text |-> "407 Proxy Authentication Required"],
      [code |-> <<"5", "0", "2">>, text |-> "502 Bad Gateway"],
      [code |-> <<"2", "x", "0">>, text |-> "2x0 Connection Established"] }

\* the number the leading token of a status line stands for
status_code(line) ==
    IF Len(line.code) = 3 /\ \A i \in 1..3 : IsDec(line.code[i])
    THEN NumVal(line.code, DecDigits, 10)
    ELSE 0 - 1

\* the status is of the 2xx class
is_success(status) == status >= 200 /\ status < 300

\* the status is of the redirect class
is_redirect(status) == status >= 300 /\ status < 400

\* variant of is_idempotent that lets every method be retried
is_idempotent_any(method) == TRUE

\* the request may be sent a second time
is_idempotent(method) == method = "GET"

\* one more redirect may be followed
may_follow(h, limit) == h < limit

\* the status the origin answers the request with after h redirects
origin_status(h, chain) == IF h < chain THEN 302 ELSE 200

\* the error value at hand is replaced by a newly built one
Surface(e, ctor, kind, cause) ==
    /\ clientError' = e
    /\ built' = Built(ctor, kind, cause)
    /\ kindRead' = "none"
    /\ shown' = NotShown

\* a request arrives at a client whose pool holds, or not, an idle
\* connection for the request's origin
Client_request(method, limit, chain, proxy, pooled) ==
    /\ pc = "idle"
    /\ request' = [method |-> method, limit |-> limit, chain |-> chain,
                   proxy |-> proxy]
    /\ pool' = IF pooled THEN {nextId} ELSE {}
    /\ nextId' = IF pooled THEN nextId + 1 ELSE nextId
    /\ hops' = 0
    /\ retries' = 0
    /\ pc' = "acquire"
    /\ UNCHANGED <<conn, evicted, tunnel, response>>
    /\ UNCHANGED <<offClientVars, errVars>>

\* step (2): a pooled connection of the origin, or a fresh transport; the
\* retry of a stale connection never takes a pooled one
acquire ==
    /\ pc = "acquire"
    /\ IF pool /= {} /\ retries = 0
       THEN LET id == CHOOSE c \in pool : TRUE
            IN  /\ conn' = [id |-> id, reused |-> TRUE]
                /\ pool' = pool \ {id}
                /\ pc' = "send"
                /\ tunnel' = NoTunnel
                /\ UNCHANGED nextId
       ELSE /\ nextId' = nextId + 1
            /\ UNCHANGED pool
            /\ IF request.proxy
               THEN /\ tunnel' = [NoTunnel EXCEPT !.transport = nextId]
                    /\ conn' = NoConn
                    /\ pc' = "tunnel"
               ELSE /\ tunnel' = NoTunnel
                    /\ conn' = [id |-> nextId, reused |-> FALSE]
                    /\ pc' = "send"
    /\ UNCHANGED <<request, evicted, hops, retries, response>>
    /\ UNCHANGED <<offClientVars, errVars>>

\* establish(transport, target_origin, proxy_descriptor): the tunnel
\* request is written and one status line of the proxy is read
establish(line) ==
    /\ pc = "tunnel"
    /\ LET status == status_code(line)
       IN  IF is_success(status)
           THEN /\ tunnel' = [tunnel EXCEPT !.status = status,
                                            !.text = line.text,
                                            !.returned = tunnel.transport]
                /\ conn' = [id |-> tunnel.transport, reused |-> FALSE]
                /\ pc' = "send"
                /\ UNCHANGED errVars
           ELSE /\ tunnel' = [tunnel EXCEPT !.status = status,
                                            !.text = line.text]
                /\ conn' = NoConn
                /\ pc' = "done"
                /\ Surface(new_with_message("Connect", line.text),
                           "new_with_message", "Connect", Some(line.text))
    /\ UNCHANGED <<request, pool, evicted, hops, retries, nextId, response>>
    /\ UNCHANGED offClientVars

\* step (3), the write of the request, and step (5) when it fails with a
\* transport-level error
send(write_ok) ==
    /\ pc = "send"
    /\ IF write_ok
       THEN /\ pc' = "respond"
            /\ UNCHANGED <<evicted, retries, errVars>>
       ELSE /\ evicted' = evicted \cup {conn.id}
            /\ IF conn.reused /\ is_idempotent(request.method) /\ retries = 0
               THEN /\ retries' = retries + 1
                    /\ pc' = "acquire"
                    /\ UNCHANGED errVars
               ELSE /\ pc' = "done"
                    /\ Surface(new_with_cause("Request",
                                              Some("connection reset")),
                               "new_with_cause", "Request",
                               Some("connection reset"))
                    /\ UNCHANGED retries
    /\ UNCHANGED <<request, conn, pool, hops, nextId, tunnel, response>>
    /\ UNCHANGED offClientVars

\* steps (3) and (4): the response head is read and the connection goes
\* back to the pool; a redirect is followed while the hop count allows
respond ==
    /\ pc = "respond"
    /\ LET status == origin_status(hops, request.chain)
       IN  IF is_redirect(status)
           THEN IF may_follow(hops, request.limit)
                THEN /\ hops' = hops + 1
                     /\ retries' = 0
                     /\ pc' = "acquire"
                     /\ UNCHANGED <<response, errVars>>
                ELSE /\ pc' = "done"
                     /\ Surface(new_with_message("Redirect",
                                                 "too many redirects"),
                                "new_with_message", "Redirect",
                                Some("too many redirects"))
                     /\ UNCHANGED <<hops, retries, response>>
           ELSE /\ response' = status
                /\ pc' = "done"
                /\ UNCHANGED <<hops, retries, errVars>>
    /\ pool' = pool \cup {conn.id}
    /\ conn' = NoConn
    /\ UNCHANGED <<request, evicted, nextId, tunnel>>
    /\ UNCHANGED offClientVars

NextClient ==
    \/ \E method \in Methods, limit \in 0..MaxLimit, chain \in 0..MaxChain,
          proxy \in BOOLEAN, pooled \in BOOLEAN :
          Client_request(method, limit, chain, proxy, pooled)
    \/ acquire
    \/ \E line \in StatusLines : establish(line)
    \/ \E write_ok \in BOOLEAN : send(write_ok)
    \/ respond

SpecClient == Init /\ [][NextClient]_vars

\* C16: a request never follows more than limit redirects; a chain of
\* n redirects then a 200 ends with the 200 after n hops when n <= limit
\* and with a Redirect-kind error after the limit-th hop when n > limit.
C16_RedirectsBounded ==
    /\ hops <= request.limit
    /\ (pc = "done" /\ response = 200 =>
           /\ hops = request.chain
           /\ request.chain <= request.limit
           /\ clientError = NoError)
    /\ (pc = "done" /\ error_kind(clientError) = "Redirect" =>
           /\ request.chain > request.limit
           /\ hops = request.limit
           /\ response = 0)
    /\ (pc = "done" /\ error_kind(clientError) \notin {"Connect", "Request"} =>
           IF request.chain <= request.limit
           THEN response = 200
           ELSE error_kind(clientError) = "Redirect")

C16_Witness ==
    /\ pc = "done" /\ request.chain = 3 /\ request.limit = 2
    /\ hops = 2 /\ error_kind(clientError) = "Redirect" /\ response = 0

\* C17: when the write fails on a reused pooled connection, a GET is
\* retried exactly once, on a fresh connection, with no error surfaced
\* before the retry, and a POST surfaces the error with no retry; the
\* failed connection is evicted and is never in the pool again.
C17_StaleConnectionRetry ==
    /\ [][(pc = "send" /\ evicted' /= evicted) =>
             /\ evicted' = evicted \cup {conn.id}
             /\ conn.id \notin pool'
             /\ IF conn.reused /\ request.method = "GET"
                THEN /\ retries = 0 /\ retries' = 1
                     /\ pc' = "acquire"
                     /\ clientError' = NoError
                ELSE /\ retries' = retries
                     /\ pc' = "done"
                     /\ clientError' /= NoError]_vars
    /\ [][(pc = "acquire" /\ retries = 1 /\ pc' /= pc) =>
             /\ pool' = pool
             /\ IF pc' = "send"
                THEN ~conn'.reused /\ conn'.id = nextId
                ELSE tunnel'.transport = nextId]_vars
    /\ [](retries <= 1)
    /\ [](request.method = "POST" => retries = 0)
    /\ [](retries = 1 /\ pc \in {"send", "respond"} =>
             ~conn.reused /\ conn.id \notin evicted)
    /\ [](evicted \cap pool = {})

C17_Witness ==
    /\ request.method = "GET" /\ retries = 1 /\ pc = "send"
    /\ ~conn.reused /\ evicted /= {} /\ conn.id \notin evicted
    /\ clientError = NoError

\* C18: a tunnel negotiation whose status line is 2xx returns the
\* transport it was given, which the request then uses; any other status
\* line ends the request with a Connect-kind error whose cause is the
\* status text.
C18_TunnelStatus ==
    tunnel.status /= 0 =>
        IF tunnel.status >= 200 /\ tunnel.status <= 299
        THEN /\ tunnel.returned = tunnel.transport
             /\ (pc = "send" => conn = [id |-> tunnel.transport,
                                        reused |-> FALSE])
             /\ error_kind(clientError) /= "Connect"
        ELSE /\ tunnel.returned = 0
             /\ pc = "done"
             /\ conn = NoConn
             /\ response = 0
             /\ error_kind(clientError) = "Connect"
             /\ clientError.cause = Some(tunnel.text)

C18_Witness ==
    /\ tunnel.status = 100 /\ pc = "done"
    /\ error_kind(clientError) = "Connect"
    /\ clientError.cause = Some("100 Continue")

====
